---- MODULE Spec2Model ----
(***************************************************************************)
(* The editor of src/main.rs: the Editor state, its update function, the   *)
(* three asynchronous commands (load_file, pick_file, save_file) and the   *)
(* runtime that runs them and feeds their results back to update.          *)
(***************************************************************************)
EXTENDS Integers, Sequences

\* ---------------------------------------------------------------- bounds
\* Longest text the buffer and a file may hold.
MaxLen == 1
\* Commands the runtime runs in one behaviour, the startup load included.
MaxCmds == 2

\* ------------------------------------------------------------ value sets
Chars == {"a"}
Paths == {"p1", "p2"}
ErrorKinds == {"NotFound"}
Themes == {"SolarizedDark", "Base16Mocha"}

\* Option<PathBuf>::None and Option<Error>::None.
NoPath == "none"
NoError == [tag |-> "None"]

\* enum Error
DialogClosed == [tag |-> "DialogClosed"]
IOFailed(kind) == [tag |-> "IOFailed", kind |-> kind]

\* Command::none() and the three futures given to Command::perform.
CmdNone == [kind |-> "none"]
CmdLoad(p) == [kind |-> "load", path |-> p]
CmdPick == [kind |-> "pick"]
CmdSave(p, t) == [kind |-> "save", path |-> p, text |-> t]

\* fn default_file
default_file == "p1"

\* --------------------------------------------------- text_editor::Content
\* The toolkit's buffer, as far as the editor uses it: the text and the cursor,
\* a position 0..Len(text). text() gives the text the buffer holds.
ContentNew == [text |-> <<>>, cursor |-> 0]
ContentWith(t) == [text |-> t, cursor |-> 0]
ContentText(c) == c.text

\* text_editor::Action: two motions and two edits.
Actions ==
    {[tag |-> "Move", dir |-> d] : d \in {"Left", "Right"}}
      \cup {[tag |-> "Insert", ch |-> c] : c \in Chars}
      \cup {[tag |-> "Backspace"]}

\* Action::is_edit
is_edit(a) == a.tag \in {"Insert", "Backspace"}

\* Content::edit
ContentEdit(c, a) ==
    CASE a.tag = "Move" /\ a.dir = "Left" ->
           [c EXCEPT !.cursor = IF c.cursor > 0 THEN c.cursor - 1 ELSE 0]
      [] a.tag = "Move" /\ a.dir = "Right" ->
           [c EXCEPT !.cursor = IF c.cursor < Len(c.text) THEN c.cursor + 1 ELSE c.cursor]
      [] a.tag = "Insert" ->
           [text   |-> SubSeq(c.text, 1, c.cursor) \o <<a.ch>>
                         \o SubSeq(c.text, c.cursor + 1, Len(c.text)),
            cursor |-> c.cursor + 1]
      [] a.tag = "Backspace" ->
           IF c.cursor = 0 THEN c
           ELSE [text   |-> SubSeq(c.text, 1, c.cursor - 1)
                              \o SubSeq(c.text, c.cursor + 1, Len(c.text)),
                 cursor |-> c.cursor - 1]

\* ----------------------------------------------------------------- state
VARIABLES
    theme, path, content, error, is_dirty,   \* struct Editor
    fs,          \* the filesystem: the text of the file at each path
    tasks,       \* the commands issued so far, in the order they were issued
    inbox,       \* results of finished commands, not yet handled by update
    lastMsg,     \* the message update handled most recently
    lastSuperseded,  \* whether that message was the result of a superseded command
    lastDiscarded,   \* the text the Document held before that result was handled
    lastCmd,     \* the command update returned for it
    opens,       \* the number of Open events update has handled
    saves        \* the number of Save events update has handled

editor == <<theme, path, content, error, is_dirty>>
vars == <<theme, path, content, error, is_dirty, fs, tasks, inbox,
          lastMsg, lastSuperseded, lastDiscarded, lastCmd, opens, saves>>

\* The Editor as a value, as update sees it through &mut self.
Self == [theme |-> theme, path |-> path, content |-> content,
         error |-> error, is_dirty |-> is_dirty]

\* ------------------------------------------------------------- messages
MsgNew == [type |-> "New"]
MsgOpen == [type |-> "Open"]
MsgSave == [type |-> "Save"]
MsgEdit(a) == [type |-> "Edit", action |-> a]
MsgThemeSelected(t) == [type |-> "ThemeSelected", theme |-> t]
FileOpenedOk(p, t) == [type |-> "FileOpened", ok |-> TRUE, path |-> p, content |-> t]
FileOpenedErr(e) == [type |-> "FileOpened", ok |-> FALSE, err |-> e]
FileSavedOk(p) == [type |-> "FileSaved", ok |-> TRUE, path |-> p]
FileSavedErr(e) == [type |-> "FileSaved", ok |-> FALSE, err |-> e]

\* ------------------------------------------------- Editor::update, by arm
\* Each arm gives the Editor after the call and the Command returned.
update_Open(self) ==
    [self |-> self, cmd |-> CmdPick]

\* update_New without the reset of the path.
update_New_KeepsPath(self) ==
    [self |-> [self EXCEPT !.is_dirty = TRUE, !.content = ContentNew], cmd |-> CmdNone]

\* update_New leaving is_dirty as it was.
update_New_KeepsDirty(self) ==
    [self |-> [self EXCEPT !.path = NoPath, !.content = ContentNew], cmd |-> CmdNone]

update_New(self) ==
    [self |-> [self EXCEPT !.is_dirty = TRUE, !.path = NoPath, !.content = ContentNew],
     cmd  |-> CmdNone]

\* update_Edit setting is_dirty on every action, a motion included.
update_Edit_AlwaysDirty(self, action) ==
    [self |-> [self EXCEPT !.is_dirty = TRUE,
                           !.error = NoError,
                           !.content = ContentEdit(self.content, action)],
     cmd  |-> CmdNone]

update_Edit(self, action) ==
    [self |-> [self EXCEPT !.is_dirty = self.is_dirty \/ is_edit(action),
                           !.error = NoError,
                           !.content = ContentEdit(self.content, action)],
     cmd  |-> CmdNone]

\* update_Save marking the document clean as soon as the save is asked for.
update_Save_ClearsDirty(self) ==
    [self |-> [self EXCEPT !.is_dirty = FALSE],
     cmd  |-> CmdSave(self.path, ContentText(self.content))]

update_Save(self) ==
    [self |-> self, cmd |-> CmdSave(self.path, ContentText(self.content))]

\* update_FileOpened_Ok discarding the load when the buffer holds unsaved text.
update_FileOpened_Ok_KeepsEdits(self, p, t) ==
    IF self.is_dirty /\ ContentText(self.content) # <<>>
    THEN [self |-> self, cmd |-> CmdNone]
    ELSE [self |-> [self EXCEPT !.path = p, !.content = ContentWith(t), !.is_dirty = FALSE],
          cmd  |-> CmdNone]

\* update_FileOpened_Ok without the clearing of is_dirty.
update_FileOpened_Ok_KeepsDirty(self, p, t) ==
    [self |-> [self EXCEPT !.path = p, !.content = ContentWith(t)], cmd |-> CmdNone]

update_FileOpened_Ok(self, p, t) ==
    [self |-> [self EXCEPT !.path = p, !.content = ContentWith(t), !.is_dirty = FALSE],
     cmd  |-> CmdNone]

\* update_FileOpened_Err asking for a file again after the failure.
update_FileOpened_Err_Retries(self, err) ==
    [self |-> [self EXCEPT !.error = err], cmd |-> CmdPick]

\* update_FileOpened_Err treating the failure as a New: the path is dropped.
update_FileOpened_Err_DropsPath(self, err) ==
    [self |-> [self EXCEPT !.error = err, !.path = NoPath], cmd |-> CmdNone]

update_FileOpened_Err(self, err) ==
    [self |-> [self EXCEPT !.error = err], cmd |-> CmdNone]

\* update_FileSaved_Ok without the assignment of the path.
update_FileSaved_Ok_KeepsPath(self, p) ==
    [self |-> [self EXCEPT !.is_dirty = FALSE], cmd |-> CmdNone]

\* update_FileSaved_Ok dropping the result of a save when the Editor has
\* since moved to another file.
update_FileSaved_Ok_IfCurrent(self, p) ==
    IF self.path \in {NoPath, p}
    THEN [self |-> [self EXCEPT !.path = p, !.is_dirty = FALSE], cmd |-> CmdNone]
    ELSE [self |-> self, cmd |-> CmdNone]

update_FileSaved_Ok(self, p) ==
    [self |-> [self EXCEPT !.path = p, !.is_dirty = FALSE], cmd |-> CmdNone]

\* update_FileSaved_Err clearing is_dirty as the Ok arm does.
update_FileSaved_Err_ClearsDirty(self, err) ==
    [self |-> [self EXCEPT !.error = err, !.is_dirty = FALSE], cmd |-> CmdNone]

update_FileSaved_Err(self, err) ==
    [self |-> [self EXCEPT !.error = err], cmd |-> CmdNone]

\* update_ThemeSelected taking the change of theme for a fresh start and
\* dropping the error shown.
update_ThemeSelected_ClearsError(self, t) ==
    [self |-> [self EXCEPT !.theme = t, !.error = NoError], cmd |-> CmdNone]

update_ThemeSelected(self, t) ==
    [self |-> [self EXCEPT !.theme = t], cmd |-> CmdNone]

update(self, message) ==
    CASE message.type = "Open" -> update_Open(self)
      [] message.type = "New" -> update_New(self)
      [] message.type = "Edit" -> update_Edit(self, message.action)
      [] message.type = "Save" -> update_Save(self)
      [] message.type = "FileOpened" /\ message.ok ->
           update_FileOpened_Ok(self, message.path, message.content)
      [] message.type = "FileOpened" /\ ~message.ok ->
           update_FileOpened_Err(self, message.err)
      [] message.type = "FileSaved" /\ message.ok ->
           update_FileSaved_Ok(self, message.path)
      [] message.type = "FileSaved" /\ ~message.ok ->
           update_FileSaved_Err(self, message.err)
      [] message.type = "ThemeSelected" -> update_ThemeSelected(self, message.theme)

\* ------------------------------------------- subscription and the toolbar
\* An Option<Messages> is the set of the messages it holds: none or one.
KeyCodes == {"S", "O"}

\* subscription falling silent while an error is shown.
subscription_QuietOnError(self, key_code, command) ==
    IF self.error = NoError /\ key_code = "S" /\ command THEN {MsgSave} ELSE {}

\* Editor::subscription: what a key press with or without the command
\* modifier is mapped to.
subscription(self, key_code, command) ==
    IF key_code = "S" /\ command THEN {MsgSave} ELSE {}

\* The save button given Some(Messages::Save) whatever is_dirty is.
save_on_press_Always(self) == {MsgSave}

\* The on_press view gives the save button: is_dirty.then_some(Messages::Save).
save_on_press(self) == IF self.is_dirty THEN {MsgSave} ELSE {}

\* action: a button that emits on_press when pressed, disabled when on_press
\* is None.
action(on_press) == on_press

\* ---------------------------------------------------------- Editor::view
\* Paths whose name is not valid Unicode: Path::to_str gives None for them.
NotUnicode == {"p2"}

\* Path::to_str
to_str(p) == IF p \in NotUnicode THEN NoPath ELSE p

\* io::ErrorKind::to_string
ErrorText(kind) ==
    CASE kind = "NotFound" -> "entity not found"
      [] kind = "PermissionDenied" -> "permission denied"

\* The text of the status line.
status_bar(self) ==
    IF self.error.tag = "IOFailed"
    THEN ErrorText(self.error.kind)
    ELSE IF self.path # NoPath /\ to_str(self.path) # NoPath
         THEN to_str(self.path)
         ELSE "New file"

\* ------------------------------------------------------------- commands
\* Where each future first waits: load_file at the read, pick_file at the
\* dialog, save_file at the write when it was given a path and at the dialog
\* when it was not.
\* save_file opening the dialog whether or not it was given a path.
save_file_start_AlwaysPrompts(p) == "dialog"

load_file_start == "read"
pick_file_start == "dialog"
save_file_start(p) == IF p # NoPath THEN "write" ELSE "dialog"

\* A command in flight. pc is where its future stands: "dialog" waits for the
\* file dialog, "read" and "write" wait for the filesystem, "done" has sent its
\* result. arg is the path it was issued with; prompted, chosen, io and
\* superseded record what happened to it: whether it opened a dialog, the path
\* the user chose there, which file operation it attempted, and whether update
\* handled a New or an Edit while its result was still outstanding.
Perform(cmd) ==
    LET start == CASE cmd.kind = "load" -> load_file_start
                   [] cmd.kind = "pick" -> pick_file_start
                   [] cmd.kind = "save" -> save_file_start(cmd.path)
    IN  [kind       |-> cmd.kind,
         pc         |-> start,
         arg        |-> IF cmd.kind = "pick" THEN NoPath ELSE cmd.path,
         path       |-> IF cmd.kind = "pick" THEN NoPath ELSE cmd.path,
         text       |-> IF cmd.kind = "save" THEN cmd.text ELSE <<>>,
         prompted   |-> start = "dialog",
         chosen     |-> NoPath,
         io         |-> "none",
         superseded |-> FALSE]

\* A command whose result update has handled: the runtime keeps nothing of it.
Handled ==
    [kind |-> "none", pc |-> "handled", arg |-> NoPath, path |-> NoPath, text |-> <<>>,
     prompted |-> FALSE, chosen |-> NoPath, io |-> "none", superseded |-> FALSE]

Outstanding(t) == t.pc # "handled"

\* The message constructor given to Command::perform.
Completion(kind, result) ==
    IF kind = "save"
    THEN IF result.ok THEN FileSavedOk(result.path) ELSE FileSavedErr(result.err)
    ELSE IF result.ok THEN FileOpenedOk(result.path, result.content)
         ELSE FileOpenedErr(result.err)

\* Resolve sending the result to the event loop twice.
Resolve_QueuesTwice(id, result, attempted) ==
    /\ tasks' = [tasks EXCEPT ![id].pc = "done", ![id].io = attempted, ![id].text = <<>>]
    /\ inbox' = inbox \o << [id |-> id, msg |-> Completion(tasks[id].kind, result)],
                            [id |-> id, msg |-> Completion(tasks[id].kind, result)] >>

\* The future of task id resolves: its result is queued for the event loop.
Resolve(id, result, attempted) ==
    /\ tasks' = [tasks EXCEPT ![id].pc = "done", ![id].io = attempted, ![id].text = <<>>]
    /\ inbox' = Append(inbox, [id |-> id, msg |-> Completion(tasks[id].kind, result)])

\* ---------------------------------------------------------------- Init
\* Editor::new with is_dirty false, as if the blank document were saved.
Init_StartsClean ==
    /\ theme = "SolarizedDark"
    /\ path = NoPath
    /\ content = ContentNew
    /\ error = NoError
    /\ is_dirty = FALSE
    /\ fs = [p \in Paths |-> IF p = default_file THEN <<"a">> ELSE <<>>]
    /\ tasks = <<Perform(CmdLoad(default_file))>>
    /\ inbox = <<>>
    /\ lastMsg = [type |-> "None"]
    /\ lastSuperseded = FALSE
    /\ lastDiscarded = <<>>
    /\ lastCmd = CmdLoad(default_file)
    /\ opens = 0
    /\ saves = 0

\* Editor::new: the initial Editor and the load of the default file.
Init ==
    /\ theme = "SolarizedDark"
    /\ path = NoPath
    /\ content = ContentNew
    /\ error = NoError
    /\ is_dirty = TRUE
    /\ fs = [p \in Paths |-> IF p = default_file THEN <<"a">> ELSE <<>>]
    /\ tasks = <<Perform(CmdLoad(default_file))>>
    /\ inbox = <<>>
    /\ lastMsg = [type |-> "None"]
    /\ lastSuperseded = FALSE
    /\ lastDiscarded = <<>>
    /\ lastCmd = CmdLoad(default_file)
    /\ opens = 0
    /\ saves = 0

\* ------------------------------------------------------- the event loop
\* The runtime calls update with message m (from command `from`, 0 for a user
\* event), stores the Editor it leaves and spawns the Command it returns.
Dispatch(m, from) ==
    LET r == update(Self, m)
        marked == [i \in 1..Len(tasks) |->
                     IF i = from THEN Handled
                     ELSE IF Outstanding(tasks[i]) /\ tasks[i].kind # "save"
                             /\ m.type \in {"New", "Edit"}
                          THEN [tasks[i] EXCEPT !.superseded = TRUE]
                          ELSE tasks[i]]
    IN  /\ r.cmd.kind # "none" => Len(tasks) < MaxCmds
        /\ theme' = r.self.theme
        /\ path' = r.self.path
        /\ content' = r.self.content
        /\ error' = r.self.error
        /\ is_dirty' = r.self.is_dirty
        /\ tasks' = IF r.cmd.kind = "none" THEN marked ELSE Append(marked, Perform(r.cmd))
        /\ lastMsg' = m
        /\ lastSuperseded' = (from # 0 /\ tasks[from].superseded)
        /\ lastDiscarded' = IF from # 0 /\ tasks[from].superseded
                            THEN ContentText(content) ELSE <<>>
        /\ lastCmd' = r.cmd
        /\ opens' = IF m.type = "Open" THEN opens + 1 ELSE opens
        /\ saves' = IF m.type = "Save" THEN saves + 1 ELSE saves
        /\ UNCHANGED fs

\* User events.
New == Dispatch(MsgNew, 0) /\ UNCHANGED inbox
Open == Dispatch(MsgOpen, 0) /\ UNCHANGED inbox
\* The toolbar's save button is pressed: it emits what view gave it.
SaveButton ==
    \E m \in action(save_on_press(Self)) : Dispatch(m, 0) /\ UNCHANGED inbox
\* A key is pressed: the runtime dispatches what subscription maps it to.
SaveShortcut ==
    \E key_code \in KeyCodes, command \in BOOLEAN :
        \E m \in subscription(Self, key_code, command) :
            Dispatch(m, 0) /\ UNCHANGED inbox
Edit ==
    \E a \in Actions :
        /\ a.tag = "Insert" => Len(content.text) < MaxLen
        /\ Dispatch(MsgEdit(a), 0)
        /\ UNCHANGED inbox
ThemeSelected == \E t \in Themes : Dispatch(MsgThemeSelected(t), 0) /\ UNCHANGED inbox

\* The result of a finished command reaches update.
Deliver ==
    /\ inbox # <<>>
    /\ Dispatch(Head(inbox).msg, Head(inbox).id)
    /\ inbox' = Tail(inbox)

\* ---------------------------------------------- the steps of the futures
\* rfd::AsyncFileDialog answered: a path chosen, or the dialog closed.
DialogChoose ==
    \E id \in 1..Len(tasks), p \in Paths :
        /\ tasks[id].pc = "dialog"
        /\ tasks' = [tasks EXCEPT ![id].pc = IF tasks[id].kind = "save" THEN "write" ELSE "read",
                                  ![id].path = p,
                                  ![id].chosen = p]
        /\ UNCHANGED <<editor, fs, inbox, lastMsg, lastSuperseded, lastDiscarded, lastCmd, opens, saves>>

DialogCancel ==
    \E id \in 1..Len(tasks) :
        /\ tasks[id].pc = "dialog"
        /\ Resolve(id, [ok |-> FALSE, err |-> DialogClosed], "none")
        /\ UNCHANGED <<editor, fs, lastMsg, lastSuperseded, lastDiscarded, lastCmd, opens, saves>>

\* load_file: tokio::fs::read_to_string succeeds or fails with an error kind.
ReadOk ==
    \E id \in 1..Len(tasks) :
        /\ tasks[id].pc = "read"
        /\ Resolve(id, [ok |-> TRUE, path |-> tasks[id].path, content |-> fs[tasks[id].path]],
                   "read")
        /\ UNCHANGED <<editor, fs, lastMsg, lastSuperseded, lastDiscarded, lastCmd, opens, saves>>

ReadErr ==
    \E id \in 1..Len(tasks), k \in ErrorKinds :
        /\ tasks[id].pc = "read"
        /\ Resolve(id, [ok |-> FALSE, err |-> IOFailed(k)], "read")
        /\ UNCHANGED <<editor, fs, lastMsg, lastSuperseded, lastDiscarded, lastCmd, opens, saves>>

\* save_file: tokio::fs::write succeeds or fails with an error kind. The
\* failures are those of ErrorKinds, met when the file is opened: they leave
\* the file as it was.
WriteOk ==
    \E id \in 1..Len(tasks) :
        /\ tasks[id].pc = "write"
        /\ fs' = [fs EXCEPT ![tasks[id].path] = tasks[id].text]
        /\ Resolve(id, [ok |-> TRUE, path |-> tasks[id].path], "write")
        /\ UNCHANGED <<editor, lastMsg, lastSuperseded, lastDiscarded, lastCmd, opens, saves>>

WriteErr ==
    \E id \in 1..Len(tasks), k \in ErrorKinds :
        /\ tasks[id].pc = "write"
        /\ Resolve(id, [ok |-> FALSE, err |-> IOFailed(k)], "write")
        /\ UNCHANGED <<editor, fs, lastMsg, lastSuperseded, lastDiscarded, lastCmd, opens, saves>>

Next ==
    \/ New
    \/ Open
    \/ SaveButton
    \/ SaveShortcut
    \/ Edit
    \/ ThemeSelected
    \/ Deliver
    \/ DialogChoose
    \/ DialogCancel
    \/ ReadOk
    \/ ReadErr
    \/ WriteOk
    \/ WriteErr

Spec == Init /\ [][Next]_vars

\* The executor polls every future it was given and the event loop hands every
\* result to update; a file dialog that is open is answered in the end.
FairSpec ==
    /\ Spec
    /\ WF_vars(Deliver)
    /\ WF_vars(DialogChoose \/ DialogCancel)
    /\ WF_vars(ReadOk \/ ReadErr)
    /\ WF_vars(WriteOk \/ WriteErr)

\* ------------------------------------------------------------ properties
\* The text last read from or written to the file at p: the model's files
\* change only when a save writes them, so it is the text the file holds.
Persisted(p) == fs[p]

OpenedOk(m) == m.type = "FileOpened" /\ m.ok
SavedOk(m) == m.type = "FileSaved" /\ m.ok

\* C1: whenever the dirty flag is false, FilePath is some path p and the
\* Document text is the text last read from or written to p.
C1_CleanMeansPersisted ==
    ~is_dirty => path # NoPath /\ ContentText(content) = Persisted(path)

\* C2: right after update handles FileOpened(Ok) or FileSaved(Ok), ErrorState
\* is none.
C2_SuccessClearsError ==
    (OpenedOk(lastMsg) \/ SavedOk(lastMsg)) => error = NoError

\* C3: a load is never cancelled. A finished command's result stays queued
\* until update handles it, and the FileOpened(Ok(path, content)) of a load
\* that a New or an Edit superseded is applied all the same: the Document is
\* the loaded content, FilePath the loaded path and dirty is false.
C3_StaleLoadApplied ==
    /\ \A id \in 1..Len(tasks) :
          tasks[id].pc = "done" => \E i \in 1..Len(inbox) : inbox[i].id = id
    /\ (OpenedOk(lastMsg) /\ lastSuperseded) =>
          /\ ContentText(content) = lastMsg.content
          /\ path = lastMsg.path
          /\ ~is_dirty

\* The result of a superseded load has replaced a Document whose text was
\* typed after the load was issued and is not the text of the file.
C3_Witness ==
    /\ OpenedOk(lastMsg) /\ lastSuperseded
    /\ lastDiscarded # <<>> /\ lastDiscarded # lastMsg.content
    /\ ContentText(content) = lastMsg.content
    /\ ~is_dirty

\* C4: after update handles FileOpened(Ok(path, content)), FilePath is path,
\* the Document is a fresh buffer holding content, dirty is false and no
\* command was issued.
C4_FileOpenedOk ==
    OpenedOk(lastMsg) =>
        /\ path = lastMsg.path
        /\ content = [text |-> lastMsg.content, cursor |-> 0]
        /\ ~is_dirty
        /\ lastCmd = CmdNone

C4_Witness ==
    OpenedOk(lastMsg) /\ lastMsg.content # <<>> /\ path = lastMsg.path

\* A step in which update handles the result at the head of the inbox.
Delivers(m) == inbox # <<>> /\ Head(inbox).msg = m /\ inbox' = Tail(inbox)

\* C5: handling FileSaved(Ok(path)) sets FilePath to path and dirty to false,
\* leaves the Document as it was and issues no command.
C5_FileSavedOk ==
    [][\A p \in Paths :
         Delivers(FileSavedOk(p)) =>
             /\ path' = p
             /\ ~is_dirty'
             /\ content' = content
             /\ lastCmd' = CmdNone
             /\ Len(tasks') = Len(tasks)]_vars

C5_Witness ==
    SavedOk(lastMsg) /\ path = lastMsg.path /\ ~is_dirty /\ ContentText(content) # <<>>

\* C6: after update handles New, FilePath is none, the Document is empty,
\* dirty is true and no command was issued.
C6_New ==
    lastMsg = MsgNew =>
        /\ path = NoPath
        /\ content = ContentNew
        /\ is_dirty
        /\ lastCmd = CmdNone

\* New handled while an error was showing.
C6_Witness ==
    lastMsg = MsgNew /\ path = NoPath /\ error # NoError

\* The future of command id resolves in this step.
Resolves(id) == id \in 1..Len(tasks) /\ tasks[id].pc # "done" /\ tasks'[id].pc = "done"

\* The result queued by the step.
Queued == inbox'[Len(inbox')]

SaveTaskOk(t) ==
    /\ t.arg # NoPath =>
          ~t.prompted /\ t.pc # "dialog" /\ t.chosen = NoPath /\ t.path = t.arg
    /\ t.arg = NoPath =>
          /\ t.prompted
          /\ t.pc = "dialog" => t.io = "none" /\ t.chosen = NoPath
          /\ (t.pc = "write" \/ t.io = "write") => t.chosen \in Paths /\ t.path = t.chosen

\* C7: a save issued with Some(p) never opens the dialog and writes its text to
\* p; a save issued with no path opens the dialog first, writes only to the
\* path chosen there, and writes nothing when the dialog is cancelled. Files
\* change in no other way.
C7_SavePrompts ==
    /\ [](\A id \in 1..Len(tasks) : tasks[id].kind = "save" => SaveTaskOk(tasks[id]))
    /\ [][/\ \A id \in 1..Len(tasks) :
               (tasks[id].kind = "save" /\ Resolves(id)) =>
                   LET t == tasks[id]
                   IN  IF t.pc = "dialog"
                       THEN fs' = fs /\ tasks'[id].io = "none" /\ ~Queued.msg.ok
                       ELSE /\ t.pc = "write"
                            /\ tasks'[id].io = "write"
                            /\ t.path = (IF t.arg # NoPath THEN t.arg ELSE t.chosen)
                            /\ IF Queued.msg.ok
                               THEN /\ fs' = [fs EXCEPT ![t.path] = t.text]
                                    /\ Queued.msg = FileSavedOk(t.path)
                               ELSE fs' = fs
          /\ fs' # fs => \E id \in 1..Len(tasks) : tasks[id].kind = "save" /\ Resolves(id)
          /\ (Len(tasks') > Len(tasks) /\ tasks'[Len(tasks')].kind = "save") =>
                LET t == tasks'[Len(tasks')]
                IN  /\ t.arg = path /\ t.path = path /\ t.text = ContentText(content)
                    /\ t.pc = (IF path # NoPath THEN "write" ELSE "dialog")
                    /\ t.prompted = (path = NoPath)]_vars

\* A save issued without a path has opened the dialog and written to the path
\* chosen there; its FileSaved(Ok) is waiting in the inbox.
C7_Witness ==
    \E id \in 1..Len(tasks) :
        /\ tasks[id].kind = "save" /\ tasks[id].arg = NoPath
        /\ tasks[id].prompted /\ tasks[id].chosen \in Paths /\ tasks[id].io = "write"
        /\ \E i \in 1..Len(inbox) : inbox[i] = [id |-> id, msg |-> FileSavedOk(tasks[id].chosen)]

\* C8: a cancelled dialog resolves the command with Err(DialogClosed) and no
\* file is read or written; handling that result sets ErrorState to
\* DialogClosed and leaves the Document, FilePath and dirty as they were.
C8_DialogClosed ==
    [][/\ \A id \in 1..Len(tasks) :
             (tasks[id].pc = "dialog" /\ Resolves(id)) =>
                 /\ fs' = fs
                 /\ tasks'[id].io = "none"
                 /\ inbox' = Append(inbox,
                        [id |-> id,
                         msg |-> IF tasks[id].kind = "save" THEN FileSavedErr(DialogClosed)
                                 ELSE FileOpenedErr(DialogClosed)])
       /\ \A m \in {FileOpenedErr(DialogClosed), FileSavedErr(DialogClosed)} :
             Delivers(m) =>
                 /\ error' = DialogClosed
                 /\ content' = content
                 /\ path' = path
                 /\ is_dirty' = is_dirty]_vars

\* A cancelled open dialog has been handled over a clean, loaded Document.
C8_Witness ==
    /\ lastMsg = FileOpenedErr(DialogClosed)
    /\ error = DialogClosed
    /\ path # NoPath /\ ~is_dirty /\ ContentText(content) # <<>>

\* C9: a read or a write that fails resolves the command with
\* Err(IOFailed(kind)); handling FileOpened(Err(e)) or FileSaved(Err(e)) sets
\* ErrorState to e and leaves the Document, FilePath and dirty as they were.
C9_IOFailed ==
    [][/\ \A id \in 1..Len(tasks) :
             (tasks[id].pc \in {"read", "write"} /\ Resolves(id) /\ ~Queued.msg.ok) =>
                 /\ Queued.id = id
                 /\ Queued.msg.type = (IF tasks[id].kind = "save" THEN "FileSaved"
                                        ELSE "FileOpened")
                 /\ \E k \in ErrorKinds : Queued.msg.err = IOFailed(k)
       /\ \A k \in ErrorKinds :
             \A m \in {FileOpenedErr(IOFailed(k)), FileSavedErr(IOFailed(k))} :
                 Delivers(m) =>
                     /\ error' = IOFailed(k)
                     /\ content' = content
                     /\ path' = path
                     /\ is_dirty' = is_dirty]_vars

\* A failed save of an edited, named Document has been handled: the Document
\* is still dirty and still named.
C9_Witness ==
    /\ lastMsg.type = "FileSaved" /\ ~lastMsg.ok
    /\ lastMsg.err.tag = "IOFailed" /\ error = lastMsg.err
    /\ is_dirty /\ path # NoPath

\* A step in which update handles a user event: no result leaves the inbox and
\* no future moves.
UserStep ==
    /\ inbox' = inbox
    /\ Len(tasks') >= Len(tasks)
    /\ \A i \in 1..Len(tasks) : tasks'[i].pc = tasks[i].pc

\* C10: handling Edit(action) applies the action to the Document, clears
\* ErrorState, sets dirty to (dirty or the action is an edit), leaves FilePath
\* as it was and issues no command.
C10_Edit ==
    [][\A a \in Actions :
         (UserStep /\ lastMsg' = MsgEdit(a)) =>
             /\ content' = ContentEdit(content, a)
             /\ error' = NoError
             /\ is_dirty' = (is_dirty \/ is_edit(a))
             /\ path' = path
             /\ lastCmd' = CmdNone
             /\ Len(tasks') = Len(tasks)]_vars

\* A motion has been applied to a clean Document, which is still clean.
C10_Witness ==
    /\ lastMsg = MsgEdit([tag |-> "Move", dir |-> "Right"])
    /\ content.cursor = 1
    /\ ~is_dirty /\ path # NoPath

\* C11: until update handles its first event the state is the launch state:
\* FilePath none, an empty Document, ErrorState none, dirty true, and one
\* command, the load of the default file. When the first event handled is
\* that load's FileOpened(Ok), FilePath becomes the default path, the Document
\* the contents of the file, and dirty false.
C11_Launch ==
    /\ [](lastMsg.type = "None" =>
            /\ path = NoPath /\ content = ContentNew /\ error = NoError /\ is_dirty
            /\ Len(tasks) = 1
            /\ tasks[1].kind = "load" /\ tasks[1].arg = default_file
            /\ tasks[1].pc \in {"read", "done"})
    /\ [][(lastMsg.type = "None" /\ inbox # <<>> /\ inbox' = Tail(inbox)
             /\ Head(inbox).msg.ok) =>
               /\ path' = default_file
               /\ content' = ContentWith(fs[default_file])
               /\ ~is_dirty']_vars

\* The startup load has been handled with no New, Edit, Open or Save before it.
C11_Witness ==
    /\ lastMsg = FileOpenedOk(default_file, fs[default_file])
    /\ ~lastSuperseded /\ Len(tasks) = 1
    /\ path = default_file /\ content = ContentWith(<<"a">>) /\ ~is_dirty

\* C12: the status line shows the error text exactly when ErrorState is
\* IOFailed(kind); when ErrorState is none or DialogClosed it shows FilePath if
\* there is one and "New file" otherwise.
C12_StatusLine ==
    IF error.tag = "IOFailed"
    THEN status_bar(Self) = ErrorText(error.kind)
    ELSE /\ status_bar(Self) \notin {ErrorText(k) : k \in ErrorKinds}
         /\ status_bar(Self) = (IF path # NoPath THEN path ELSE "New file")

\* C13: every command delivers one completion to update, never none and never
\* two: while its future runs nothing of it is queued, once it has resolved
\* exactly one result is queued, a FileSaved for a save and a FileOpened for a
\* load or a pick-and-load, and update handles that result once. Under
\* FairSpec every command issued is handled in the end.
C13_OneCompletion ==
    /\ [](/\ \A id \in 1..Len(tasks) :
               (tasks[id].pc = "done") <=> (\E i \in 1..Len(inbox) : inbox[i].id = id)
          /\ \A i, j \in 1..Len(inbox) : inbox[i].id = inbox[j].id => i = j
          /\ \A i \in 1..Len(inbox) :
               /\ inbox[i].id \in 1..Len(tasks)
               /\ inbox[i].msg.type = (IF tasks[inbox[i].id].kind = "save" THEN "FileSaved"
                                       ELSE "FileOpened"))
    /\ [][/\ (inbox # <<>> /\ inbox' = Tail(inbox)) =>
               /\ tasks[Head(inbox).id].pc = "done"
               /\ tasks'[Head(inbox).id].pc = "handled"
               /\ lastMsg' = Head(inbox).msg
          /\ \A id \in 1..Len(tasks) :
               /\ tasks[id].pc = "handled" => tasks'[id].pc = "handled"
               /\ (tasks[id].pc # "handled" /\ tasks'[id].pc = "handled") =>
                     (inbox # <<>> /\ Head(inbox).id = id /\ inbox' = Tail(inbox))]_vars
    /\ \A id \in 1..MaxCmds :
          (Len(tasks) >= id) ~> (Len(tasks) >= id /\ tasks[id].pc = "handled")

\* Two commands were issued and update has handled the result of each.
C13_Witness ==
    /\ Len(tasks) = 2
    /\ \A id \in 1..Len(tasks) : tasks[id].pc = "handled"
    /\ inbox = <<>>

\* C14: no retries. The commands issued are the startup load and one for each
\* Open and each Save handled; handling a completion issues none. ErrorState
\* takes an error only when update handles the failed completion carrying it.
C14_NoRetries ==
    /\ [](Len(tasks) = 1 + opens + saves)
    /\ [][/\ (inbox # <<>> /\ inbox' = Tail(inbox)) =>
               /\ lastCmd' = CmdNone
               /\ Len(tasks') = Len(tasks)
               /\ opens' = opens /\ saves' = saves
               /\ ~Head(inbox).msg.ok => error' = Head(inbox).msg.err
          /\ Len(tasks') # Len(tasks) =>
               /\ Len(tasks') = Len(tasks) + 1
               /\ UserStep
               /\ lastMsg' \in {MsgOpen, MsgSave}
               /\ tasks'[Len(tasks')].kind = (IF lastMsg' = MsgOpen THEN "pick" ELSE "save")
          /\ (error' # error /\ error' # NoError) =>
               /\ inbox # <<>> /\ inbox' = Tail(inbox)
               /\ ~Head(inbox).msg.ok /\ error' = Head(inbox).msg.err]_vars

\* A failed open has been handled and left nothing running: the only command
\* issued besides the startup load is the one Open asked for.
C14_Witness ==
    /\ lastMsg.type = "FileOpened" /\ ~lastMsg.ok /\ error = lastMsg.err
    /\ opens = 1 /\ saves = 0 /\ Len(tasks) = 2
    /\ lastCmd = CmdNone

\* C15: handling Open or Save leaves theme, path, content, error and is_dirty
\* as they were and issues exactly one command. The save command carries the
\* path and the text of the moment Save is handled: no later step alters what
\* a pending save holds, and the write stores that text.
C15_OpenSaveFrame ==
    [][/\ (UserStep /\ lastMsg' \in {MsgOpen, MsgSave}) =>
            /\ UNCHANGED editor
            /\ Len(tasks') = Len(tasks) + 1
            /\ lastCmd' = (IF lastMsg' = MsgOpen THEN CmdPick
                           ELSE CmdSave(path, ContentText(content)))
            /\ LET t == tasks'[Len(tasks')]
               IN  IF lastMsg' = MsgOpen THEN t.kind = "pick"
                   ELSE t.kind = "save" /\ t.arg = path /\ t.text = ContentText(content)
       /\ \A id \in 1..Len(tasks) :
            (tasks[id].kind = "save" /\ tasks[id].pc \in {"dialog", "write"}) =>
               /\ tasks'[id].arg = tasks[id].arg
               /\ tasks'[id].pc \in {"dialog", "write"} => tasks'[id].text = tasks[id].text
               /\ (tasks[id].pc = "write" /\ tasks'[id].pc = "done" /\ tasks'[id].io = "write"
                      /\ Queued.msg.ok) =>
                     /\ fs' = [fs EXCEPT ![tasks[id].path] = tasks[id].text]
                     /\ tasks[id].arg # NoPath => tasks[id].path = tasks[id].arg
       /\ fs' # fs =>
            \E id \in 1..Len(tasks) :
               /\ tasks[id].kind = "save" /\ tasks[id].pc = "write"
               /\ fs' = [fs EXCEPT ![tasks[id].path] = tasks[id].text]]_vars

\* A save is about to write while the Editor has moved on: the path and the
\* text it carries are no longer those of the Editor.
C15_Witness ==
    \E id \in 1..Len(tasks) :
        /\ tasks[id].kind = "save" /\ tasks[id].pc = "write"
        /\ tasks[id].arg # NoPath /\ tasks[id].arg # path
        /\ tasks[id].text # ContentText(content)

\* C16: no error is fatal or blocking. In every reachable state, whatever
\* error holds and whatever commands are pending, update handles New, Edit,
\* ThemeSelected, Open and the Save of the keyboard shortcut (Open and Save
\* while the model still has room for the command they issue).
C16_NeverBlocked ==
    /\ ENABLED New
    /\ ENABLED Edit
    /\ ENABLED ThemeSelected
    /\ \A m \in {MsgNew, MsgOpen, MsgSave} \cup {MsgEdit(a) : a \in Actions}
                \cup {MsgThemeSelected(t) : t \in Themes} :
          update(Self, m).self.theme \in Themes
    /\ Len(tasks) < MaxCmds => ENABLED Open /\ ENABLED SaveShortcut

\* After a failed load, with its error still shown, a Save is handled and
\* its command runs.
C16_Witness ==
    /\ error \in {IOFailed(k) : k \in ErrorKinds}
    /\ lastMsg = MsgSave /\ lastCmd.kind = "save"
    /\ \E id \in 1..Len(tasks) : tasks[id].kind = "save" /\ Outstanding(tasks[id])
    /\ opens = 0 /\ saves = 1

\* C17: in every reachable state a document without a path is dirty, so view
\* gives its save button Some(Messages::Save).
C17_UntitledIsDirty ==
    path = NoPath => is_dirty /\ action(save_on_press(Self)) = {MsgSave}

\* The default file was loaded, which made the document clean, and New then
\* dropped the path.
C17_Witness ==
    /\ path = NoPath /\ lastMsg = MsgNew
    /\ tasks[1] = Handled /\ error = NoError
    /\ opens = 0 /\ saves = 0

\* C18: commands in flight together finish in any order, and update applies
\* each successful result as it comes, whatever was issued or handled in
\* between: every pending read or write may be the next to finish, a queued
\* result is always handled, and handling a successful one sets path to its
\* path and is_dirty to false (and, for a load, the Document to its content),
\* so the Editor shows the result handled last.
C18_LastHandledWins ==
    /\ [](/\ inbox # <<>> => ENABLED Deliver
          /\ \A id \in 1..Len(tasks) :
                /\ tasks[id].pc = "read" => ENABLED (ReadOk /\ tasks'[id].pc = "done")
                /\ tasks[id].pc = "write" => ENABLED (WriteOk /\ tasks'[id].pc = "done")
          /\ (OpenedOk(lastMsg) \/ SavedOk(lastMsg)) =>
                path = lastMsg.path /\ ~is_dirty)
    /\ [][\A id \in 1..Len(tasks), other \in 1..Len(tasks) :
             (/\ id # other
              /\ inbox # <<>> /\ inbox' = Tail(inbox)
              /\ Head(inbox).id = id /\ Head(inbox).msg.ok) =>
                 /\ path' = Head(inbox).msg.path
                 /\ ~is_dirty'
                 /\ content' = (IF Head(inbox).msg.type = "FileOpened"
                                THEN ContentWith(Head(inbox).msg.content)
                                ELSE content)
                 /\ tasks'[other] = tasks[other]]_vars

\* The startup load and a save ran together. The save, issued last, wrote
\* "a" to p2 and its result was handled first; the result of the load was
\* handled last and the Editor is on the default file.
C18_Witness ==
    /\ OpenedOk(lastMsg) /\ lastMsg.path = default_file
    /\ path = default_file /\ ~is_dirty
    /\ Len(tasks) = 2 /\ tasks[1] = Handled /\ tasks[2] = Handled
    /\ opens = 0 /\ saves = 1
    /\ fs["p2"] = <<"a">>

\* C19: the save button emits Save only while is_dirty (view gives it no
\* message otherwise and it cannot be pressed), whereas the keyboard shortcut
\* emits Save in every state, a clean document included.
C19_SaveSources ==
    /\ action(save_on_press(Self)) = (IF is_dirty THEN {MsgSave} ELSE {})
    /\ subscription(Self, "S", TRUE) = {MsgSave}
    /\ \A key_code \in KeyCodes, command \in BOOLEAN :
          (key_code # "S" \/ ~command) => subscription(Self, key_code, command) = {}
    /\ ~is_dirty => ~ENABLED SaveButton
    /\ (~is_dirty /\ Len(tasks) < MaxCmds) => ENABLED SaveShortcut

\* A Save was handled for a clean document and its command is pending: only
\* the shortcut can have sent it.
C19_Witness ==
    /\ lastMsg = MsgSave /\ ~is_dirty
    /\ lastCmd = CmdSave(path, ContentText(content))
    /\ \E id \in 1..Len(tasks) : tasks[id].kind = "save" /\ Outstanding(tasks[id])

\* C20: handling ThemeSelected(t) sets theme to t, leaves content, path, error
\* and is_dirty as they were and issues no command; no step that handles
\* another message, and no step of a command, changes theme.
C20_ThemeSelected ==
    [][/\ \A t \in Themes :
            (UserStep /\ lastMsg' = MsgThemeSelected(t)) =>
                /\ theme' = t
                /\ content' = content /\ path' = path
                /\ error' = error /\ is_dirty' = is_dirty
                /\ lastCmd' = CmdNone
                /\ tasks' = tasks
                /\ fs' = fs
       /\ theme' # theme =>
            /\ UserStep
            /\ lastMsg' = MsgThemeSelected(theme')]_vars

\* The theme was changed while an error was shown on a clean document.
C20_Witness ==
    /\ lastMsg = MsgThemeSelected("Base16Mocha") /\ theme = "Base16Mocha"
    /\ error # NoError /\ ~is_dirty /\ path # NoPath
====
